---- MODULE Spec2Model ----
(***************************************************************************)
(* Model of src/main.py: four FastAPI routes that bind a request's path,   *)
(* query and body to typed parameters, validate them and build a response  *)
(* dictionary.                                                             *)
(*                                                                         *)
(* Text is a sequence of one-character strings, so that lengths, prefixes  *)
(* and dictionary keys chosen by the client are computed rather than       *)
(* looked up.  A Python/JSON value is a tagged record [t, v].  A dict is a *)
(* function from keys (text) to values.  Floats are modelled by integers   *)
(* (rounding and overflow of IEEE doubles are outside the model).          *)
(***************************************************************************)
EXTENDS Integers, Sequences, FiniteSets, TLC

VARIABLES reqs, prev, engine

vars == <<reqs, prev, engine>>

(* ------------------------------ bounds --------------------------------- *)

\* Numbers a client sends for price and tax range over 0..MaxNum.
MaxNum == 1

\* Requests that may be in flight at once in the concurrent specification.
MaxInFlight == 2

(* ------------------------------ values --------------------------------- *)

None == [t |-> "null", v |-> 0]

Str(s) == [t |-> "str", v |-> s]

Num(n) == [t |-> "num", v |-> n]

List(l) == [t |-> "list", v |-> l]

Obj(d) == [t |-> "obj", v |-> d]

EmptyDict == [k \in {} |-> None]

\* d[k] = v
DictSet(d, k, v) == [y \in DOMAIN d \cup {k} |-> IF y = k THEN v ELSE d[y]]

\* d.update(e), also {**d, **e}: the keys of e win.
DictUpdate(d, e) ==
    [y \in DOMAIN d \cup DOMAIN e |-> IF y \in DOMAIN e THEN e[y] ELSE d[y]]

\* d.get(k): None when the key is missing.
DictGet(d, k) == IF k \in DOMAIN d THEN d[k] ELSE None

IsNone(x) == x.t = "null"

\* Mutant of Truthy: "if q is not None" instead of "if q".
Truthy_IsNotNone(x) == x.t = "str"

\* Python truthiness of an Optional[str]: None and "" are falsy.
Truthy(x) == x.t = "str" /\ Len(x.v) > 0

(* ------------------------------- text ---------------------------------- *)

K_name == <<"n", "a", "m", "e">>

K_description == <<"d", "e", "s", "c", "r", "i", "p", "t", "i", "o", "n">>

K_price == <<"p", "r", "i", "c", "e">>

K_tax == <<"t", "a", "x">>

K_price_with_tax ==
    <<"p", "r", "i", "c", "e", "_", "w", "i", "t", "h", "_", "t", "a", "x">>

K_item_id == <<"i", "t", "e", "m", "_", "i", "d">>

K_q == <<"q">>

K_items == <<"i", "t", "e", "m", "s">>

T_Foo == <<"F", "o", "o">>

T_Bar == <<"B", "a", "r">>

T_fixedquery == <<"f", "i", "x", "e", "d", "q", "u", "e", "r", "y">>

Digits == <<"0", "1", "2", "3", "4", "5", "6", "7", "8", "9">>

IsDigit(c) == \E i \in 1..10 : Digits[i] = c

DigitVal(c) == (CHOOSE i \in 1..10 : Digits[i] = c) - 1

AllDigits(s) == Len(s) > 0 /\ \A i \in 1..Len(s) : IsDigit(s[i])

RECURSIVE DigitsVal(_)
DigitsVal(s) ==
    IF Len(s) = 0 THEN 0
    ELSE 10 * DigitsVal(SubSeq(s, 1, Len(s) - 1)) + DigitVal(s[Len(s)])

\* int(text) / float(text) on the texts of the model: an optional sign and digits.
IsNumeral(s) ==
    \/ AllDigits(s)
    \/ Len(s) > 1 /\ s[1] \in {"-", "+"} /\ AllDigits(Tail(s))

NumeralVal(s) ==
    IF s[1] = "-" THEN 0 - DigitsVal(Tail(s))
    ELSE IF s[1] = "+" THEN DigitsVal(Tail(s))
    ELSE DigitsVal(s)

(* --------------------- request binding and validation ------------------ *)

\* Query(..., min_length=3): the shortest q accepted by GET /items4.
Q_MIN_LENGTH == 3

\* Query(..., max_length=50): the longest q accepted by GET /items4.
Q_MAX_LENGTH == 50

\* The regular-expression engine of the installed validation library, which
\* the source does not pin: Python's re (pydantic 1) or Rust's regex
\* (pydantic 2).  It is fixed when the server starts.
Engines == {"python_re", "rust_regex"}

\* Mutant of RegexMatch: the pattern without its closing anchor.
RegexMatch_Unanchored(s) ==
    /\ Len(s) >= Len(T_fixedquery)
    /\ SubSeq(s, 1, Len(T_fixedquery)) = T_fixedquery

\* regex="^fixedquery$".  In both engines the text must be fixedquery; in
\* Python's re "$" also matches just before a newline that ends the text.
RegexMatch(s) ==
    /\ Len(s) >= Len(T_fixedquery)
    /\ SubSeq(s, 1, Len(T_fixedquery)) = T_fixedquery
    /\ \/ Len(s) = Len(T_fixedquery)
       \/ /\ engine = "python_re"
          /\ Len(s) = Len(T_fixedquery) + 1
          /\ s[Len(s)] = "\n"

\* Mutant of StrOk: the field declared Optional[str].
StrOk_Optional(x) == x.t \in {"str", "null"}

\* A field of type str: text only.
StrOk(x) == x.t = "str"

\* A field of type float: a number, or text that float() parses.
FloatOk(x) == x.t = "num" \/ (x.t = "str" /\ IsNumeral(x.v))

ToFloat(x) == IF x.t = "num" THEN x ELSE Num(NumeralVal(x.v))

\* Errors of the body against class Item, in the order of its fields.  A
\* required field fails when missing or null; an Optional field defaults to
\* None.  Keys that Item does not declare are ignored.
ItemErrors(body) ==
    IF body.t # "obj" THEN << <<"body">> >>
    ELSE LET o == body.v
             name == DictGet(o, K_name)
             description == DictGet(o, K_description)
             price == DictGet(o, K_price)
             tax == DictGet(o, K_tax)
         IN  (IF StrOk(name) THEN <<>> ELSE << <<"body", "name">> >>)
             \o (IF IsNone(description) \/ StrOk(description) THEN <<>>
                 ELSE << <<"body", "description">> >>)
             \o (IF FloatOk(price) THEN <<>> ELSE << <<"body", "price">> >>)
             \o (IF IsNone(tax) \/ FloatOk(tax) THEN <<>>
                 ELSE << <<"body", "tax">> >>)

\* The Item built from a body that has no errors.
Item(body) ==
    LET o == body.v
        tax == DictGet(o, K_tax)
    IN  [name |-> DictGet(o, K_name),
         description |-> DictGet(o, K_description),
         price |-> ToFloat(DictGet(o, K_price)),
         tax |-> IF IsNone(tax) THEN None ELSE ToFloat(tax)]

NoItem == [name |-> None, description |-> None, price |-> None, tax |-> None]

\* item_id: int, taken from the path.
PathErrors(path) == IF IsNumeral(path) THEN <<>> ELSE << <<"path", "item_id">> >>

PathInt(path) == Num(NumeralVal(path))

\* Mutant of RequiredQErrors: the regex constraint left out.
RequiredQErrors_NoRegex(q) ==
    IF /\ q.t = "str"
       /\ Len(q.v) >= Q_MIN_LENGTH
       /\ Len(q.v) <= Q_MAX_LENGTH
    THEN <<>>
    ELSE << <<"query", "q">> >>

\* q: Optional[str] = Query(..., max_length=50, min_length=3, regex="^fixedquery$")
RequiredQErrors(q) ==
    IF /\ q.t = "str"
       /\ Len(q.v) >= Q_MIN_LENGTH
       /\ Len(q.v) <= Q_MAX_LENGTH
       /\ RegexMatch(q.v)
    THEN <<>>
    ELSE << <<"query", "q">> >>

\* Every parameter of a route is validated and the errors are collected:
\* path, then query, then body.
BindErrors(inp) ==
    CASE inp.route = "items1" -> ItemErrors(inp.body)
      [] inp.route = "items2" -> PathErrors(inp.path) \o ItemErrors(inp.body)
      [] inp.route = "items3" -> PathErrors(inp.path) \o ItemErrors(inp.body)
      [] inp.route = "items4" -> RequiredQErrors(inp.q)

(* ------------------------------ responses ------------------------------ *)

NoOutcome == [status |-> 0, body |-> EmptyDict, errors |-> <<>>]

Ok(d) == [status |-> 200, body |-> d, errors |-> <<>>]

\* The binding layer's answer to a request that fails validation.
ValidationError(errs) == [status |-> 422, body |-> EmptyDict, errors |-> errs]

\* The server's answer when the handler raises.
ServerError == [status |-> 500, body |-> EmptyDict, errors |-> <<>>]

(* --------------------------- handler statements ------------------------ *)

\* Mutant of ItemDict: item.dict(exclude_none=True).
ItemDict_ExcludeNone(item) ==
    LET d == DictSet(DictSet(DictSet(DictSet(EmptyDict,
                K_name, item.name),
                K_description, item.description),
                K_price, item.price),
                K_tax, item.tax)
    IN  [k \in {y \in DOMAIN d : d[y].t # "null"} |-> d[k]]

\* item.dict()
ItemDict(item) ==
    DictSet(DictSet(DictSet(DictSet(EmptyDict,
        K_name, item.name),
        K_description, item.description),
        K_price, item.price),
        K_tax, item.tax)

\* Mutant of CanAdd: an absent tax counts as zero, (item.tax or 0).
CanAdd_TaxDefaultsToZero(item) == item.price.t = "num"

\* item.price + item.tax raises TypeError when tax is None.
CanAdd(item) == item.price.t = "num" /\ item.tax.t = "num"

\* Mutant of PriceWithTax: the tax is left out of the sum.
PriceWithTax_ForgetsTax(item) == Num(item.price.v)

\* price_with_tax = item.price + item.tax
PriceWithTax(item) == Num(item.price.v + item.tax.v)

\* item_dict.update({"price_with_tax": price_with_tax})
WithPriceWithTax(item_dict, price_with_tax) ==
    DictUpdate(item_dict, DictSet(EmptyDict, K_price_with_tax, price_with_tax))

\* Mutant of WithItemId: the dict is a module-level one that still holds what
\* another request's handler put into it.
WithItemId_SharedResult(item_id, item) ==
    LET used == {s \in DOMAIN reqs : DOMAIN reqs[s].result # {}}
        fresh == DictUpdate(DictSet(EmptyDict, K_item_id, item_id),
                            DictSet(DictSet(DictSet(DictSet(EmptyDict,
                                K_name, item.name),
                                K_description, item.description),
                                K_price, item.price),
                                K_tax, item.tax))
    IN  IF used = {} THEN fresh
        ELSE DictUpdate(reqs[CHOOSE s \in used : TRUE].result, fresh)

\* {"item_id": item_id, **item.dict()}
WithItemId(item_id, item) ==
    DictUpdate(DictSet(EmptyDict, K_item_id, item_id), ItemDict(item))

\* result.update({"q": q})
WithQ(result, q) == DictUpdate(result, DictSet(EmptyDict, K_q, q))

\* Mutant of FixedResults: results is a module-level dict, so the keys other
\* requests wrote are still in it.
FixedResults_ModuleLevel ==
    LET used == {s \in DOMAIN reqs : DOMAIN reqs[s].results # {}}
        fresh == DictSet(EmptyDict, K_items,
                    List(<< DictSet(EmptyDict, K_item_id, Str(T_Foo)),
                            DictSet(EmptyDict, K_item_id, Str(T_Bar)) >>))
    IN  IF used = {} THEN fresh
        ELSE DictUpdate(reqs[CHOOSE s \in used : TRUE].results, fresh)

\* results = {"items": [{"item_id": "Foo"}, {"item_id": "Bar"}]}
FixedResults ==
    DictSet(EmptyDict, K_items,
            List(<< DictSet(EmptyDict, K_item_id, Str(T_Foo)),
                    DictSet(EmptyDict, K_item_id, Str(T_Bar)) >>))

\* Mutant of WithQAsKey: the literal key "q", as in PUT /items3/{item_id}.
WithQAsKey_LiteralKey(results, q) ==
    DictUpdate(results, DictSet(EmptyDict, K_q, q))

\* results.update({q: q})
WithQAsKey(results, q) == DictUpdate(results, DictSet(EmptyDict, q.v, q))

(* ------------------- the handlers, run without interruption ------------ *)

\* POST /items1/
CreateItem1(item) ==
    LET item_dict == ItemDict(item)
    IN  IF CanAdd(item)
        THEN Ok(WithPriceWithTax(item_dict, PriceWithTax(item)))
        ELSE ServerError

\* PUT /items2/{item_id}
CreateItem2(item_id, item) == Ok(WithItemId(item_id, item))

\* PUT /items3/{item_id}
CreateItem3(item_id, item, q) ==
    LET result == WithItemId(item_id, item)
    IN  Ok(IF Truthy(q) THEN WithQ(result, q) ELSE result)

\* GET /items4
ReadItems(q) ==
    LET results == FixedResults
    IN  Ok(IF Truthy(q) THEN WithQAsKey(results, q) ELSE results)

\* The outcome of one request handled alone: binding, then the handler.
Handle(inp) ==
    LET errs == BindErrors(inp)
    IN  IF errs # <<>> THEN ValidationError(errs)
        ELSE CASE inp.route = "items1" -> CreateItem1(Item(inp.body))
               [] inp.route = "items2" ->
                    CreateItem2(PathInt(inp.path), Item(inp.body))
               [] inp.route = "items3" ->
                    CreateItem3(PathInt(inp.path), Item(inp.body), inp.q)
               [] inp.route = "items4" -> ReadItems(inp.q)

(* ------------------------------- requests ------------------------------ *)

NoInput == [route |-> "none", path |-> <<>>, body |-> None, q |-> None]

\* A slot of the server: the request it holds, the handler's position and
\* the handler's local variables.
IdleReq ==
    [pc |-> "idle", inp |-> NoInput,
     item_id |-> None, item |-> NoItem, q |-> None,
     item_dict |-> EmptyDict, price_with_tax |-> None,
     result |-> EmptyDict, results |-> EmptyDict,
     out |-> NoOutcome]

NoPrev == [inp |-> NoInput, out |-> NoOutcome]

\* The first statement of each route's handler.
Entry(route) ==
    CASE route = "items1" -> "L40"
      [] route = "items2" -> "L53"
      [] route = "items3" -> "L62"
      [] route = "items4" -> "L84"

HandlerLines ==
    {"L40", "L41", "L42", "L43", "L53", "L62", "L63", "L64", "L65",
     "L84", "L85", "L86", "L87"}

Set(s, r) == reqs' = [reqs EXCEPT ![s] = r]

\* A request arrives and is routed.
Receive(s, inp) ==
    /\ reqs[s].pc = "idle"
    /\ Set(s, [IdleReq EXCEPT !.pc = "bind", !.inp = inp])
    /\ UNCHANGED <<prev, engine>>

\* The framework binds path, query and body to the handler's parameters; the
\* handler is called only when there is no error.
Bind(s) ==
    LET r == reqs[s]
        errs == BindErrors(r.inp)
    IN  /\ r.pc = "bind"
        /\ IF errs # <<>>
           THEN Set(s, [r EXCEPT !.pc = "done", !.out = ValidationError(errs)])
           ELSE Set(s, [r EXCEPT
                    !.pc = Entry(r.inp.route),
                    !.item_id = IF r.inp.route \in {"items2", "items3"}
                                THEN PathInt(r.inp.path) ELSE None,
                    !.item = IF r.inp.route = "items4" THEN NoItem
                             ELSE Item(r.inp.body),
                    !.q = IF r.inp.route \in {"items3", "items4"}
                          THEN r.inp.q ELSE None])
        /\ UNCHANGED <<prev, engine>>

(* POST /items1/ *)

L40(s) ==
    LET r == reqs[s]
    IN  /\ r.pc = "L40"
        /\ Set(s, [r EXCEPT !.pc = "L41", !.item_dict = ItemDict(r.item)])
        /\ UNCHANGED <<prev, engine>>

L41(s) ==
    LET r == reqs[s]
    IN  /\ r.pc = "L41"
        /\ IF CanAdd(r.item)
           THEN Set(s, [r EXCEPT !.pc = "L42",
                                 !.price_with_tax = PriceWithTax(r.item)])
           ELSE Set(s, [r EXCEPT !.pc = "done", !.out = ServerError])
        /\ UNCHANGED <<prev, engine>>

L42(s) ==
    LET r == reqs[s]
    IN  /\ r.pc = "L42"
        /\ Set(s, [r EXCEPT !.pc = "L43",
                   !.item_dict = WithPriceWithTax(r.item_dict, r.price_with_tax)])
        /\ UNCHANGED <<prev, engine>>

L43(s) ==
    LET r == reqs[s]
    IN  /\ r.pc = "L43"
        /\ Set(s, [r EXCEPT !.pc = "done", !.out = Ok(r.item_dict)])
        /\ UNCHANGED <<prev, engine>>

(* PUT /items2/{item_id} *)

L53(s) ==
    LET r == reqs[s]
    IN  /\ r.pc = "L53"
        /\ Set(s, [r EXCEPT !.pc = "done",
                            !.out = Ok(WithItemId(r.item_id, r.item))])
        /\ UNCHANGED <<prev, engine>>

(* PUT /items3/{item_id} *)

L62(s) ==
    LET r == reqs[s]
    IN  /\ r.pc = "L62"
        /\ Set(s, [r EXCEPT !.pc = "L63",
                            !.result = WithItemId(r.item_id, r.item)])
        /\ UNCHANGED <<prev, engine>>

L63(s) ==
    LET r == reqs[s]
    IN  /\ r.pc = "L63"
        /\ Set(s, [r EXCEPT !.pc = IF Truthy(r.q) THEN "L64" ELSE "L65"])
        /\ UNCHANGED <<prev, engine>>

L64(s) ==
    LET r == reqs[s]
    IN  /\ r.pc = "L64"
        /\ Set(s, [r EXCEPT !.pc = "L65", !.result = WithQ(r.result, r.q)])
        /\ UNCHANGED <<prev, engine>>

L65(s) ==
    LET r == reqs[s]
    IN  /\ r.pc = "L65"
        /\ Set(s, [r EXCEPT !.pc = "done", !.out = Ok(r.result)])
        /\ UNCHANGED <<prev, engine>>

(* GET /items4 *)

L84(s) ==
    LET r == reqs[s]
    IN  /\ r.pc = "L84"
        /\ Set(s, [r EXCEPT !.pc = "L85", !.results = FixedResults])
        /\ UNCHANGED <<prev, engine>>

L85(s) ==
    LET r == reqs[s]
    IN  /\ r.pc = "L85"
        /\ Set(s, [r EXCEPT !.pc = IF Truthy(r.q) THEN "L86" ELSE "L87"])
        /\ UNCHANGED <<prev, engine>>

L86(s) ==
    LET r == reqs[s]
    IN  /\ r.pc = "L86"
        /\ Set(s, [r EXCEPT !.pc = "L87",
                            !.results = WithQAsKey(r.results, r.q)])
        /\ UNCHANGED <<prev, engine>>

L87(s) ==
    LET r == reqs[s]
    IN  /\ r.pc = "L87"
        /\ Set(s, [r EXCEPT !.pc = "done", !.out = Ok(r.results)])
        /\ UNCHANGED <<prev, engine>>

\* The response is sent and the request, with its locals, is discarded.  The
\* client may keep the exchange (keep) to compare a later one with it.
Respond(s, keep) ==
    /\ reqs[s].pc = "done"
    /\ Set(s, IdleReq)
    /\ prev' = IF keep THEN [inp |-> reqs[s].inp, out |-> reqs[s].out] ELSE prev
    /\ UNCHANGED engine

(* -------------------------------- inputs ------------------------------- *)

\* A key the client leaves out of the JSON object.
Missing == [t |-> "missing", v |-> 0]

\* The JSON object holding the keys of f that are not Missing.
JsonObject(f) == Obj([k \in {y \in DOMAIN f : f[y].t # "missing"} |-> f[k]])

Fields(name, description, price, tax, extra) ==
    DictSet(DictSet(DictSet(DictSet(DictSet(EmptyDict,
        K_name, name),
        K_description, description),
        K_price, price),
        K_tax, tax),
        K_item_id, extra)

T_hello == <<"h", "e", "l", "l", "o">>

T_ab == <<"a", "b">>

T_notmatching == <<"n", "o", "t", "m", "a", "t", "c", "h", "i", "n", "g">>

Repeat(c, n) == [i \in 1..n |-> c]

Names == {Missing, None, Str(T_Foo)}

Descriptions == {Missing, Str(<<"d">>)}

Prices == {Missing, None, Str(<<"7">>), Str(<<"x">>)} \cup {Num(n) : n \in 0..MaxNum}

Taxes == {Missing, None} \cup {Num(n) : n \in 0..MaxNum}

Extras == {Missing, Num(9)}

\* Bodies: JSON objects, a JSON array, and no body at all.
Bodies ==
    {JsonObject(Fields(n, d, p, t, x)) :
        n \in Names, d \in Descriptions, p \in Prices, t \in Taxes, x \in Extras}
    \cup {List(<<>>), None}

Paths == {<<"5">>, <<"-", "1">>, <<"a">>}

OptionalQs == {None, Str(<<>>), Str(T_hello)}

RequiredQs ==
    {None, Str(<<>>), Str(T_ab), Str(T_notmatching), Str(K_items),
     Str(T_fixedquery), Str(T_fixedquery \o <<"\n">>),
     Str(T_fixedquery \o <<"x">>), Str(<<"x">> \o T_fixedquery),
     Str(Repeat("a", Q_MIN_LENGTH)), Str(Repeat("a", Q_MAX_LENGTH)),
     Str(Repeat("a", Q_MAX_LENGTH + 1))}

Inputs ==
    {[route |-> "items1", path |-> <<>>, body |-> b, q |-> None] : b \in Bodies}
    \cup {[route |-> "items2", path |-> p, body |-> b, q |-> None] :
            p \in Paths, b \in Bodies}
    \cup {[route |-> "items3", path |-> p, body |-> b, q |-> q] :
            p \in Paths, b \in Bodies, q \in OptionalQs}
    \cup {[route |-> "items4", path |-> <<>>, body |-> None, q |-> q] :
            q \in RequiredQs}

\* The requests of the concurrent specification: one or two per outcome of
\* each route.
FooBody(tax) == JsonObject(Fields(Str(T_Foo), Missing, Num(1), tax, Missing))

ConcInputs ==
    {[route |-> "items1", path |-> <<>>, body |-> FooBody(Num(1)), q |-> None],
     [route |-> "items1", path |-> <<>>, body |-> FooBody(Missing), q |-> None],
     [route |-> "items2", path |-> <<"5">>, body |-> FooBody(Missing), q |-> None],
     [route |-> "items3", path |-> <<"5">>, body |-> FooBody(Missing), q |-> None],
     [route |-> "items3", path |-> <<"5">>, body |-> FooBody(Missing),
      q |-> Str(T_hello)],
     [route |-> "items4", path |-> <<>>, body |-> None, q |-> Str(T_fixedquery)],
     [route |-> "items4", path |-> <<>>, body |-> None,
      q |-> Str(T_fixedquery \o <<"\n">>)],
     [route |-> "items4", path |-> <<>>, body |-> None, q |-> Str(T_ab)]}

(* ---------------------------- specifications --------------------------- *)

\* One request at a time, drawn from every input of the model.
Init ==
    /\ reqs = [s \in {1} |-> IdleReq]
    /\ prev = NoPrev
    /\ engine \in Engines

Next ==
    \/ \E s \in DOMAIN reqs, inp \in Inputs : Receive(s, inp)
    \/ \E s \in DOMAIN reqs : Bind(s)
    \/ \E s \in DOMAIN reqs : L40(s)
    \/ \E s \in DOMAIN reqs : L41(s)
    \/ \E s \in DOMAIN reqs : L42(s)
    \/ \E s \in DOMAIN reqs : L43(s)
    \/ \E s \in DOMAIN reqs : L53(s)
    \/ \E s \in DOMAIN reqs : L62(s)
    \/ \E s \in DOMAIN reqs : L63(s)
    \/ \E s \in DOMAIN reqs : L64(s)
    \/ \E s \in DOMAIN reqs : L65(s)
    \/ \E s \in DOMAIN reqs : L84(s)
    \/ \E s \in DOMAIN reqs : L85(s)
    \/ \E s \in DOMAIN reqs : L86(s)
    \/ \E s \in DOMAIN reqs : L87(s)
    \/ \E s \in DOMAIN reqs : Respond(s, FALSE)

Spec == Init /\ [][Next]_vars

\* Up to MaxInFlight requests in flight, their handler statements interleaved
\* in any order; the client may keep one earlier exchange.  The handlers are
\* coroutines without an await, so one event loop runs each of them without
\* interruption; interleaving statement by statement also covers several
\* workers.
InitConc ==
    /\ reqs = [s \in 1..MaxInFlight |-> IdleReq]
    /\ prev = NoPrev
    /\ engine \in Engines

NextConc ==
    \/ \E s \in DOMAIN reqs, inp \in ConcInputs : Receive(s, inp)
    \/ \E s \in DOMAIN reqs : Bind(s)
    \/ \E s \in DOMAIN reqs : L40(s)
    \/ \E s \in DOMAIN reqs : L41(s)
    \/ \E s \in DOMAIN reqs : L42(s)
    \/ \E s \in DOMAIN reqs : L43(s)
    \/ \E s \in DOMAIN reqs : L53(s)
    \/ \E s \in DOMAIN reqs : L62(s)
    \/ \E s \in DOMAIN reqs : L63(s)
    \/ \E s \in DOMAIN reqs : L64(s)
    \/ \E s \in DOMAIN reqs : L65(s)
    \/ \E s \in DOMAIN reqs : L84(s)
    \/ \E s \in DOMAIN reqs : L85(s)
    \/ \E s \in DOMAIN reqs : L86(s)
    \/ \E s \in DOMAIN reqs : L87(s)
    \/ \E s \in DOMAIN reqs, keep \in BOOLEAN : Respond(s, keep)

SpecConc == InitConc /\ [][NextConc]_vars

(* -------------------------------- claims ------------------------------- *)

\* The slots whose request to the route has its outcome.
DoneOn(route) ==
    {s \in DOMAIN reqs : reqs[s].pc = "done" /\ reqs[s].inp.route = route}

\* The slots holding a request to the route, at any position.
On(route) == {s \in DOMAIN reqs : reqs[s].inp.route = route}

\* Key k is in the JSON object b with a value other than null.
Present(b, k) == b.t = "obj" /\ k \in DOMAIN b.v /\ b.v[k].t # "null"

\* The number a client's JSON value stands for: a number, or a numeral text.
NumberOf(x) == IF x.t = "num" THEN x.v ELSE NumeralVal(x.v)

\* The response carries the four Item fields with the values of body b.
CarriesItem(d, b) ==
    /\ {K_name, K_description, K_price, K_tax} \subseteq DOMAIN d
    /\ d[K_name] = b.v[K_name]
    /\ d[K_description] = DictGet(b.v, K_description)
    /\ d[K_price] = Num(NumberOf(b.v[K_price]))
    /\ d[K_tax] = IF Present(b, K_tax) THEN Num(NumberOf(b.v[K_tax])) ELSE None

\* C1: a valid Item with tax present sent to POST /items1/ is answered with
\* the four Item fields of the request and price_with_tax = price + tax.
C1_PriceWithTax ==
    \A s \in DoneOn("items1") :
        LET r == reqs[s]
            b == r.inp.body
        IN  (ItemErrors(b) = <<>> /\ Present(b, K_tax)) =>
                /\ r.out.status = 200
                /\ CarriesItem(r.out.body, b)
                /\ K_price_with_tax \in DOMAIN r.out.body
                /\ r.out.body[K_price_with_tax] =
                      Num(NumberOf(b.v[K_price]) + NumberOf(b.v[K_tax]))

\* A request with price "7" (text) and tax 1 has been answered with 8.
C1_Witness ==
    \E s \in DoneOn("items1") :
        LET r == reqs[s]
            b == r.inp.body
        IN  /\ Present(b, K_tax) /\ Present(b, K_price)
            /\ b.v[K_price] = Str(<<"7">>)
            /\ b.v[K_tax] = Num(1)
            /\ r.out.status = 200
            /\ r.out.body[K_price_with_tax] = Num(8)

\* C2: a valid Item without tax sent to POST /items1/ passes validation, the
\* handler runs up to price + tax and fails there: the outcome is a server
\* error, never a response with price_with_tax.
C2_AbsentTaxFails ==
    \A s \in DoneOn("items1") :
        LET r == reqs[s]
            b == r.inp.body
        IN  (ItemErrors(b) = <<>> /\ ~Present(b, K_tax)) =>
                /\ r.out.status = 500
                /\ K_price_with_tax \notin DOMAIN r.out.body
                /\ DOMAIN r.item_dict = {K_name, K_description, K_price, K_tax}
                /\ r.item_dict[K_tax] = None
                /\ r.price_with_tax = None

\* A request with tax null has ended in the server error.
C2_Witness ==
    \E s \in DoneOn("items1") :
        LET r == reqs[s]
            b == r.inp.body
        IN  /\ ItemErrors(b) = <<>>
            /\ K_tax \in DOMAIN b.v /\ b.v[K_tax] = None
            /\ r.out.status = 500
            /\ DOMAIN r.item_dict # {}

\* The texts "^fixedquery$" can match: fixedquery, and fixedquery followed by
\* one newline where "$" matches before a final newline.
MayMatch(q) ==
    q.t = "str" /\ q.v \in {T_fixedquery, T_fixedquery \o <<"\n">>}

QLengthOk(q) ==
    q.t = "str" /\ Len(q.v) >= 3 /\ Len(q.v) <= 50

\* C3: GET /items4 runs its handler and succeeds only for a supplied q of
\* length 3..50 that matches ^fixedquery$; any other q ends in a validation
\* error naming q without the handler running; q = fixedquery succeeds.
C3_QueryValidation ==
    \A s \in On("items4") :
        LET r == reqs[s]
            q == r.inp.q
        IN  /\ (r.pc \in HandlerLines \/ (r.pc = "done" /\ r.out.status = 200))
                => (QLengthOk(q) /\ MayMatch(q))
            /\ (r.pc = "done" /\ ~(QLengthOk(q) /\ MayMatch(q))) =>
                /\ r.out.status = 422
                /\ r.out.errors = << <<"query", "q">> >>
                /\ DOMAIN r.results = {}
            /\ (r.pc = "done" /\ q = Str(T_fixedquery)) => r.out.status = 200

\* A q that begins with the fixed text but goes on has been rejected.
C3_Witness ==
    \E s \in DoneOn("items4") :
        /\ reqs[s].inp.q = Str(T_fixedquery \o <<"x">>)
        /\ reqs[s].out.status = 422

\* C4: an accepted PUT /items3/{item_id} is answered with item_id of the
\* path, the Item fields, and a key q exactly when q was supplied and is not
\* empty, holding the supplied text.
C4_OptionalQ ==
    \A s \in DoneOn("items3") :
        LET r == reqs[s]
            d == r.out.body
        IN  r.out.status = 200 =>
                /\ K_item_id \in DOMAIN d
                /\ d[K_item_id] = Num(NumeralVal(r.inp.path))
                /\ CarriesItem(d, r.inp.body)
                /\ K_q \in DOMAIN d <=> (r.inp.q.t = "str" /\ r.inp.q.v # <<>>)
                /\ K_q \in DOMAIN d => d[K_q] = r.inp.q

\* A request with q the empty text has been answered without a key q.
C4_Witness ==
    \E s \in DoneOn("items3") :
        /\ reqs[s].inp.q = Str(<<>>)
        /\ reqs[s].out.status = 200
        /\ K_q \notin DOMAIN reqs[s].out.body

\* C5: PUT /items2/{item_id} with an integer item_id and a valid Item is
\* answered with exactly item_id of the path and the four Item fields of the
\* body, absent optional fields as null; the body cannot overwrite item_id.
C5_ItemIdAndFields ==
    \A s \in DoneOn("items2") :
        LET r == reqs[s]
            d == r.out.body
        IN  (IsNumeral(r.inp.path) /\ ItemErrors(r.inp.body) = <<>>) =>
                /\ r.out.status = 200
                /\ DOMAIN d = {K_item_id, K_name, K_description, K_price, K_tax}
                /\ d[K_item_id] = Num(NumeralVal(r.inp.path))
                /\ CarriesItem(d, r.inp.body)
                /\ ~Present(r.inp.body, K_description) => d[K_description] = None
                /\ ~Present(r.inp.body, K_tax) => d[K_tax] = None

\* A body that carries its own item_id, and no description or tax, has been
\* answered with the item_id of the path -1.
C5_Witness ==
    \E s \in DoneOn("items2") :
        LET r == reqs[s]
            b == r.inp.body
        IN  /\ r.inp.path = <<"-", "1">>
            /\ Present(b, K_item_id)
            /\ ~Present(b, K_description) /\ ~Present(b, K_tax)
            /\ r.out.status = 200
            /\ r.out.body[K_item_id] = Num(0 - 1)

\* The list every successful GET /items4 returns under "items".
FooBar ==
    List(<< [k \in {K_item_id} |-> Str(T_Foo)], [k \in {K_item_id} |-> Str(T_Bar)] >>)

\* C6: a successful GET /items4 holds the fixed list under items and, q
\* being supplied, q's text as a key whose value is the same text.
C6_ItemsAndEcho ==
    \A s \in DoneOn("items4") :
        LET r == reqs[s]
            d == r.out.body
        IN  r.out.status = 200 =>
                /\ K_items \in DOMAIN d
                /\ d[K_items] = FooBar
                /\ r.inp.q.t = "str" =>
                      (r.inp.q.v \in DOMAIN d /\ d[r.inp.q.v] = r.inp.q)

\* q = fixedquery has been answered with "fixedquery": "fixedquery".
C6_Witness ==
    \E s \in DoneOn("items4") :
        /\ reqs[s].inp.q = Str(T_fixedquery)
        /\ reqs[s].out.status = 200
        /\ reqs[s].out.body[T_fixedquery] = Str(T_fixedquery)

BodyRoutes == {"items1", "items2", "items3"}

\* The body cannot be made an Item: not an object, name missing or not text,
\* price missing or neither a number nor a numeral.
Incoercible(b) ==
    \/ b.t # "obj"
    \/ ~Present(b, K_name) \/ b.v[K_name].t # "str"
    \/ ~Present(b, K_price)
    \/ (b.v[K_price].t = "str" /\ ~IsNumeral(b.v[K_price].v))

\* C7: on the three body routes the handler runs, and an answer other than a
\* validation error is given, only for a body with name and price; a body
\* without one of them, or not coercible, ends in a validation error with no
\* handler output; a body of just name and price is accepted.
C7_ItemValidation ==
    \A s \in DOMAIN reqs :
        LET r == reqs[s]
            b == r.inp.body
        IN  r.inp.route \in BodyRoutes =>
                /\ (r.pc \in HandlerLines \/ (r.pc = "done" /\ r.out.status # 422))
                      => (Present(b, K_name) /\ Present(b, K_price))
                /\ (r.pc = "done" /\ Incoercible(b)) =>
                      /\ r.out.status = 422
                      /\ r.out.errors # <<>>
                      /\ DOMAIN r.out.body = {}
                      /\ DOMAIN r.item_dict = {} /\ DOMAIN r.result = {}
                /\ (/\ r.pc = "done"
                    /\ b.t = "obj"
                    /\ DOMAIN b.v = {K_name, K_price}
                    /\ ~Incoercible(b)
                    /\ (r.inp.route = "items1" \/ IsNumeral(r.inp.path)))
                      => r.out.status # 422

\* A body with a price and no name has been rejected on PUT /items3/.
C7_Witness ==
    \E s \in DoneOn("items3") :
        LET r == reqs[s]
            b == r.inp.body
        IN  /\ b.t = "obj"
            /\ K_name \notin DOMAIN b.v
            /\ Present(b, K_price)
            /\ IsNumeral(r.inp.path)
            /\ r.out = ValidationError(<< <<"body", "name">> >>)

\* The one response of GET /items4 the original statement allows.
SingleMap ==
    [k \in {K_items, T_fixedquery} |->
        IF k = K_items THEN FooBar ELSE Str(T_fixedquery)]

\* C10 as amended: for every q GET /items4 accepts, q is not "items", the
\* branch "if q" is taken, and the response has exactly the two keys items
\* and q's text, items holding the fixed list; q is fixedquery, or fixedquery
\* followed by a newline.
C10_ItemsNeverReplaced ==
    \A s \in On("items4") :
        LET r == reqs[s]
            d == r.out.body
        IN  /\ r.pc = "L85" => Truthy(r.q)
            /\ r.pc # "L87" \/ DOMAIN r.results # {K_items}
            /\ (r.pc = "done" /\ r.out.status = 200) =>
                /\ r.inp.q.v # K_items
                /\ DOMAIN d = {K_items, r.inp.q.v}
                /\ Cardinality(DOMAIN d) = 2
                /\ d[K_items] = FooBar
                /\ MayMatch(r.inp.q)

\* The handler has answered a q it accepted, with two keys.
C10_Witness ==
    \E s \in DoneOn("items4") :
        /\ reqs[s].out.status = 200
        /\ Cardinality(DOMAIN reqs[s].out.body) = 2
        /\ reqs[s].inp.q.v # T_fixedquery

\* C10 as stated: every successful response of GET /items4 is the same
\* single map.
C10_Original ==
    \A s \in On("items4") :
        LET r == reqs[s]
        IN  /\ r.pc = "L85" => Truthy(r.q)
            /\ (r.pc = "done" /\ r.out.status = 200) =>
                /\ r.inp.q.v # K_items
                /\ DOMAIN r.out.body = {K_items, r.inp.q.v}
                /\ r.out.body = SingleMap

\* C8: whatever was served before and whatever else is in flight, a request
\* with the input of an exchange the client kept has the outcome of that
\* exchange, and two requests with the same input have the same outcome.
C8_Idempotent ==
    /\ \A s \in DOMAIN reqs :
          (reqs[s].pc = "done" /\ reqs[s].inp = prev.inp)
              => reqs[s].out = prev.out
    /\ \A s, u \in DOMAIN reqs :
          (reqs[s].pc = "done" /\ reqs[u].pc = "done" /\ reqs[s].inp = reqs[u].inp)
              => reqs[s].out = reqs[u].out

\* A request has been repeated after its first exchange was kept, while a
\* request to the same route with another input has its outcome too.
C8_Witness ==
    \E s, u \in DOMAIN reqs :
        /\ s # u
        /\ reqs[s].pc = "done" /\ reqs[u].pc = "done"
        /\ reqs[s].inp = prev.inp
        /\ reqs[s].inp.route = "items3"
        /\ reqs[u].inp.route = "items3"
        /\ reqs[u].inp # reqs[s].inp
        /\ reqs[u].out.status = 200

\* C9: with requests in flight together and their handler statements
\* interleaved in any order, the outcome of each request is the outcome of
\* the same request handled alone.
C9_Isolated ==
    \A s \in DOMAIN reqs :
        reqs[s].pc = "done" => reqs[s].out = Handle(reqs[s].inp)

\* Two requests to GET /items4 with different q overlap: one has its
\* outcome while the other has updated its results and not yet returned.
C9_Witness ==
    \E s, u \in DOMAIN reqs :
        /\ s # u
        /\ reqs[s].inp.route = "items4" /\ reqs[u].inp.route = "items4"
        /\ reqs[s].inp.q # reqs[u].inp.q
        /\ reqs[s].pc = "done" /\ reqs[s].out.status = 200
        /\ reqs[u].pc = "L87"
        /\ DOMAIN reqs[s].out.body # DOMAIN reqs[u].results

====
